---- MODULE Spec2Model ----
(***************************************************************************)
(* django-clean-fields: cleaner callables registered on the pre_save       *)
(* signal (clean_fields/decorators.py), the trial-invocation dispatch      *)
(* call_cleaner, and the save() of BaseCleanFieldsModel                    *)
(* (clean_fields/models.py).                                               *)
(*                                                                         *)
(* The library is driven by user code: entity classes, their cleaner       *)
(* callables and the decorator applications.  The model enumerates a small *)
(* user program (five entity classes and a catalogue of cleaner callables  *)
(* of every kind the decorators' documentation lists) and lets any         *)
(* sequence of registrations, saves and direct calls happen on it.         *)
(***************************************************************************)
EXTENDS Integers, Sequences, FiniteSets, TLC

\* ------------------------------------------------------------------ bounds
MaxVal == 1          \* an instance is given with field values None or 0..MaxVal
MaxHandlers == 2     \* decorator applications (pre_save receivers)

\* ------------------------------------------------------------------ values
None == -1
Values == {None} \cup (0..MaxVal)

\* Positional arguments as a callable receives them: a field value, the
\* context dict (a set of <<name, value>> pairs), the instance or its class.
ValArg(v) == [t |-> "val", v |-> v, c |-> {}]
CtxArg(c) == [t |-> "ctx", v |-> 0, c |-> c]
InstArg == [t |-> "inst", v |-> 0, c |-> {}]
ClsArg == [t |-> "cls", v |-> 0, c |-> {}]

\* ------------------------------------------------------------------ errors
\* exc.py: the message of a CleanFieldsConfigurationError is built from the
\* cleaner name, the field name and the model label.
NoErr == [kind |-> "", msg |-> "", n |-> 0, model |-> <<>>, field |-> "", cleaner |-> ""]
Err(kind, msg, n) == [kind |-> kind, msg |-> msg, n |-> n, model |-> <<>>, field |-> "", cleaner |-> ""]
\* The error built without the cleaner's name.
CleanFieldsConfigurationError_anonymous(model_label, field_name, cleaner_name) ==
    [kind |-> "CleanFieldsConfigurationError", msg |-> "no such field", n |-> 0,
     model |-> model_label, field |-> field_name, cleaner |-> ""]

CleanFieldsConfigurationError(model_label, field_name, cleaner_name) ==
    [kind |-> "CleanFieldsConfigurationError", msg |-> "no such field", n |-> 0,
     model |-> model_label, field |-> field_name, cleaner |-> cleaner_name]

\* exc.py:15-22 str(error) of a CleanFieldsConfigurationError, as the pieces
\* format() joins; the model label is app_name.ModelName.
Message(e) ==
    <<"Callable \"", e.cleaner, "\" configured to clean \"", e.field, "\", but \"",
      e.model[1] \o "." \o e.model[2], "\" has no such field">>

\* exc.py:7-12 and the builtins: the base class of an exception class.
BaseOf(cls) ==
    CASE cls = "CleanFieldsConfigurationError" -> "CleanFieldsError"
      [] cls = "Exception" -> "BaseException"
      [] OTHER -> "Exception"
RECURSIVE IsSubclass(_, _)
IsSubclass(cls, base) ==
    \/ cls = base
    \/ cls # "BaseException" /\ IsSubclass(BaseOf(cls), base)

\* TypeErrors of the interpreter's call machinery (Python 3 wording):
\*   "f() takes n positional argument(s) but k were given"   msg "takes", n
\*   "f() missing k required positional argument(s)"         msg "missing"
\*   "f() got an unexpected keyword argument"                msg "keyword"
\*   "'int' object is not callable"                          msg "not callable"
\* decorators.py:135-138: re.search(r'takes( exactly)? \d( positional)?
\* arguments?', str(e)): one digit must stand between "takes" and the rest.
ArityPattern(e) == e.msg = "takes" /\ e.n \in 0..9

\* Results of a call: a return value or a raised error.  origin tells whether
\* an error left the callable's own body or the call machinery around it.
\* setitems: the items the callee assigned in the mapping it was given.
Ret(v) == [ok |-> TRUE, ret |-> v, err |-> NoErr, origin |-> "", setitems |-> {}]
Raise(e, origin) ==
    [ok |-> FALSE, ret |-> None, err |-> e, origin |-> origin, setitems |-> {}]

\* ------------------------------------------------------------ user program
\* Entity classes.  M, N and R are CleanFieldsModel subclasses.  M has the
\* fields f and g, one more instance attribute h that is not a field, a class
\* attribute clean_g that is a string, and the decorated methods below.  N has
\* the field f and a method clean_f; R has f, g and k, methods clean_f and
\* clean_k, and a method clean_g that raises.  Z has the field f and a class
\* attribute clean_f that is the empty string.  B has the field f and derives
\* from BaseCleanFieldsModel directly.
Models == {"M", "N", "R", "Z", "B"}
Label(m) == <<"app", m>>

\* utils.py:30-47 get_model_field_names: the names of instance._meta's fields.
get_model_field_names(instance) ==
    CASE instance.model \in {"N", "Z", "B"} -> <<"f">>
      [] instance.model = "R" -> <<"f", "g", "k">>
      [] OTHER -> <<"f", "g">>

\* The instances an operation may be given.
Instances ==
    {[model |-> "M", attrs |-> [f |-> x, g |-> y, h |-> z]] :
        x \in Values, y \in 0..MaxVal, z \in 0..MaxVal}
    \cup {[model |-> "N", attrs |-> [f |-> x]] : x \in Values}
    \cup {[model |-> "R", attrs |-> [f |-> 0, g |-> 0, k |-> 0]]}
    \cup {[model |-> "Z", attrs |-> [f |-> 0]], [model |-> "B", attrs |-> [f |-> 0]]}
\* Between operations no instance is at hand.
NoInstance == [model |-> "", attrs |-> [f |-> None]]

\* The functions the user wrote.  Each has one signature: a first parameter
\* (self, cls or none), the value, and for the functions written for
\* cleans_field_with_context the context mapping.
PlainFns == {"add_one", "add_two", "inc_or_one", "static_inc", "class_inc", "fn_inc",
             "fn_raise", "m_raise", "m_type_raise", "helper_misuse", "other_add_one"}
CtxFns == {"add_one_ctx", "add_two_ctx", "static_inc_ctx", "class_inc_ctx",
           "fn_inc_ctx", "m_raise_ctx", "use_ctx", "ctx_set"}
RawFns == PlainFns \cup CtxFns
First(raw) ==
    CASE raw \in {"add_one", "add_two", "inc_or_one", "m_raise", "m_type_raise",
                  "helper_misuse", "add_one_ctx", "add_two_ctx", "m_raise_ctx",
                  "use_ctx", "ctx_set"} -> "self"
      [] raw \in {"class_inc", "class_inc_ctx"} -> "cls"
      [] OTHER -> "none"

\* isinstance(x, int) of an argument
IsInt(x) == x.t = "val" /\ x.v # None
\* x + n: an int plus n, TypeError for None and for every other object
Plus(x, n) ==
    IF IsInt(x) THEN Ret(x.v + n)
    ELSE Raise(Err("TypeError", "unsupported operand", 0), "body")
\* x + 1 if x else 1: one for None, 0 and an empty mapping
IncOrOne(x) ==
    IF (x.t = "val" /\ x.v \in {None, 0}) \/ (x.t = "ctx" /\ x.c = {}) THEN Ret(1)
    ELSE Plus(x, 1)

\* The body of a user function on the arguments bound to its parameters:
\* first, value and (CtxFns only) data.
Body(raw, first, value, data) ==
    CASE raw \in {"add_one", "static_inc", "fn_inc", "add_one_ctx", "static_inc_ctx",
                  "fn_inc_ctx"} -> Plus(value, 1)
      [] raw \in {"add_two", "add_two_ctx", "other_add_one"} -> Plus(value, 2)
      [] raw = "inc_or_one" -> IncOrOne(value)
      [] raw \in {"class_inc", "class_inc_ctx"} ->
            \* assert cls == TheModel, then the value plus one
            IF first.t = "cls" THEN Plus(value, 1)
            ELSE Raise(Err("AssertionError", "", 0), "body")
      [] raw = "m_type_raise" ->
            \* an int is returned as it is, anything else is the wrong type
            IF IsInt(value) THEN Ret(value.v)
            ELSE Raise(Err("TypeError", "some_field is the wrong type", 0), "body")
      [] raw = "fn_raise" ->
            Raise(Err("TypeError", "this is a legitimate error", 0), "body")
      [] raw \in {"m_raise", "m_raise_ctx"} ->
            Raise(Err("ValueError", "bad value", 0), "body")
      [] raw = "helper_misuse" ->
            \* the body calls a helper with one argument too many: the
            \* interpreter raises "helper() takes 1 positional argument
            \* but 2 were given" inside the cleaner
            Raise(Err("TypeError", "takes", 1), "body")
      [] raw = "use_ctx" ->
            \* return data['g'] if 'g' in data else value
            IF data.t # "ctx" THEN Raise(Err("TypeError", "not iterable", 0), "body")
            ELSE IF \E p \in data.c : p[1] = "g"
            THEN Ret((CHOOSE p \in data.c : p[1] = "g")[2])
            ELSE IF value.t = "val" THEN Ret(value.v)
            ELSE Raise(Err("TypeError", "unsupported operand", 0), "body")
      [] raw = "ctx_set" ->
            \* data['f'] = None; data['g'] = data['g'] + 1; return value + 1
            IF data.t # "ctx"
            THEN Raise(Err("TypeError", "does not support item assignment", 0), "body")
            ELSE IF ~\E p \in data.c : p[1] = "g"
            THEN [Raise(Err("KeyError", "g", 0), "body") EXCEPT !.setitems = {<<"f", None>>}]
            ELSE LET g == Plus(ValArg((CHOOSE p \in data.c : p[1] = "g")[2]), 1)
                     r == Plus(value, 1)
                 IN  IF ~g.ok THEN [g EXCEPT !.setitems = {<<"f", None>>}]
                     ELSE [r EXCEPT !.setitems = {<<"f", None>>, <<"g", g.ret>>}]

\* Calling a user function with positional arguments recv and keyword names
\* kw: the interpreter binds them to the function's parameters.
NParams(raw) ==
    (IF First(raw) = "none" THEN 0 ELSE 1) + 1 + (IF raw \in CtxFns THEN 1 ELSE 0)
Invoke(raw, recv, kw) ==
    LET p == NParams(raw)
        skip == IF First(raw) = "none" THEN 0 ELSE 1
    IN  IF kw # {} THEN Raise(Err("TypeError", "keyword", 0), "signature")
        ELSE IF Len(recv) > p THEN Raise(Err("TypeError", "takes", p), "signature")
        ELSE IF Len(recv) < p THEN Raise(Err("TypeError", "missing", p - Len(recv)), "signature")
        ELSE Body(raw, recv[1], recv[skip + 1],
                  IF raw \in CtxFns THEN recv[skip + 2] ELSE CtxArg({}))

\* The callables handed to the decorators: each has a __name__ and reaches a
\* user function.  "stacked", "stacked_misuse" and "stacked_type_raise" are
\* what an inner cleans_field returned (decorators.py:51-54, named
\* _run_cleaner) for add_one, helper_misuse and m_type_raise; "stacked_ctx"
\* and "stacked_raise_ctx" are what an inner cleans_field_with_context
\* returned (decorators.py:95-98, named _run_cleaner_with_context) for
\* add_one_ctx and m_raise_ctx.  "other_add_one" is a function defined
\* outside M that happens to carry the name of M's method add_one; "fn_f" is
\* a function like fn_inc whose name is f, the name of a field.
Cleaners == (RawFns \ {"helper_misuse", "m_type_raise", "m_raise_ctx"})
            \cup {"stacked", "stacked_misuse", "stacked_type_raise", "stacked_ctx",
                  "stacked_raise_ctx", "fn_f"}
Name(c) ==
    CASE c \in {"stacked", "stacked_misuse", "stacked_type_raise"} -> "_run_cleaner"
      [] c \in {"stacked_ctx", "stacked_raise_ctx"} -> "_run_cleaner_with_context"
      [] c = "other_add_one" -> "add_one"
      [] c = "fn_f" -> "f"
      [] OTHER -> c
RawOf(c) ==
    CASE c = "stacked" -> "add_one"
      [] c = "stacked_misuse" -> "helper_misuse"
      [] c = "stacked_type_raise" -> "m_type_raise"
      [] c = "stacked_ctx" -> "add_one_ctx"
      [] c = "stacked_raise_ctx" -> "m_raise_ctx"
      [] c = "fn_f" -> "fn_inc"
      [] OTHER -> c

\* A classmethod bound like a plain method, to the instance.
Binding_instance(name) ==
    CASE name \in {"static_inc", "static_inc_ctx"} -> "staticmethod"
      [] OTHER -> "method"

\* The class attributes of M that are callables: the decorated methods.
MethodNames == {"add_one", "add_two", "inc_or_one", "static_inc", "class_inc",
                "m_raise", "add_one_ctx", "add_two_ctx", "static_inc_ctx",
                "class_inc_ctx", "use_ctx", "ctx_set"}
Binding(name) ==
    CASE name \in {"static_inc", "static_inc_ctx"} -> "staticmethod"
      [] name \in {"class_inc", "class_inc_ctx"} -> "classmethod"
      [] OTHER -> "method"

\* getattr(instance, name, default): an instance attribute, a method of the
\* class bound to the instance, or nothing.
Absent == [t |-> "absent", v |-> 0, name |-> ""]
GetAttr(instance, name) ==
    IF name \in DOMAIN instance.attrs
    THEN [t |-> "value", v |-> instance.attrs[name], name |-> name]
    ELSE IF instance.model = "M" /\ name \in MethodNames
    THEN [t |-> "callable", v |-> 0, name |-> name]
    ELSE Absent

\* setattr(instance, name, value)
SetAttr(instance, name, value) ==
    [instance EXCEPT !.attrs =
        [a \in DOMAIN instance.attrs \cup {name} |->
            IF a = name THEN value ELSE instance.attrs[a]]]

\* get_model_field_value with None as getattr's default: an attribute
\* holding None counts as missing.
get_model_field_value_none(instance, field_name) ==
    LET a == GetAttr(instance, field_name)
    IN  IF a.t = "absent" \/ (a.t = "value" /\ a.v = None)
        THEN Raise(Err("AttributeError", "has no field named", 0), "utils")
        ELSE IF a.t = "value" THEN [ok |-> TRUE, ret |-> a.v, err |-> NoErr, origin |-> ""]
        ELSE [ok |-> TRUE, ret |-> None, err |-> NoErr, origin |-> "callable"]

\* utils.py:12-27 get_model_field_value: getattr with the NoValue default,
\* AttributeError when the default came back.
get_model_field_value(instance, field_name) ==
    LET a == GetAttr(instance, field_name)
    IN  IF a.t = "absent" THEN Raise(Err("AttributeError", "has no field named", 0), "utils")
        ELSE IF a.t = "value" THEN [ok |-> TRUE, ret |-> a.v, err |-> NoErr, origin |-> ""]
        ELSE [ok |-> TRUE, ret |-> None, err |-> NoErr, origin |-> "callable"]

\* ---------------------------------------------------------------- the log
\* What one save (or one direct call) did, in order: calls of callables,
\* writes of instance attributes, the call of Model.save and the row write.
Entry(e) == [e |-> e, h |-> 0, conv |-> 0, cleaner |-> "", raw |-> "", given |-> <<>>,
             args |-> <<>>, recv |-> <<>>, kw |-> {}, res |-> Ret(None), field |-> "",
             val |-> None, sargs |-> "", obj |-> NoInstance]
CallEntry(h, conv, cleaner, raw, given, args, recv, kw, res) ==
    [Entry("call") EXCEPT !.h = h, !.conv = conv, !.cleaner = cleaner, !.raw = raw,
        !.given = given, !.args = args, !.recv = recv, !.kw = kw, !.res = res]
WriteEntry(h, field, val) == [Entry("write") EXCEPT !.h = h, !.field = field, !.val = val]

\* ------------------------------------------------------------ call_cleaner
\* call_cleaner with the last two conventions swapped: the callable alone
\* first, the callable with the instance only after an arity TypeError.
call_cleaner_swapped(cleaner_callable, args, instance, h) ==
    LET field_cleaner == GetAttr(instance, Name(cleaner_callable))
        raw == RawOf(cleaner_callable)
        r3 == Invoke(raw, args, {})
        c3 == CallEntry(h, 3, cleaner_callable, raw, args, args, args, {}, r3)
        r2 == Invoke(raw, <<InstArg>> \o args, {})
        c2 == CallEntry(h, 2, cleaner_callable, raw, args, <<InstArg>> \o args,
                        <<InstArg>> \o args, {}, r2)
    IN  IF field_cleaner.t = "callable"
        THEN LET b == Binding(field_cleaner.name)
                 recv == CASE b = "method" -> <<InstArg>> \o args
                           [] b = "classmethod" -> <<ClsArg>> \o args
                           [] OTHER -> args
                 r == Invoke(field_cleaner.name, recv, {})
             IN  [res |-> r,
                  calls |-> <<CallEntry(h, 1, cleaner_callable, field_cleaner.name,
                                        args, args, recv, {}, r)>>]
        ELSE IF r3.ok \/ r3.err.kind # "TypeError" THEN [res |-> r3, calls |-> <<c3>>]
        ELSE [res |-> r2, calls |-> <<c3, c2>>]

\* call_cleaner without the call that passes the instance: the attribute
\* named like the cleaner, else the callable with the args alone.
call_cleaner_unbound(cleaner_callable, args, instance, h) ==
    LET field_cleaner == GetAttr(instance, Name(cleaner_callable))
        raw == RawOf(cleaner_callable)
        r3 == Invoke(raw, args, {})
    IN  IF field_cleaner.t = "callable"
        THEN LET b == Binding(field_cleaner.name)
                 recv == CASE b = "method" -> <<InstArg>> \o args
                           [] b = "classmethod" -> <<ClsArg>> \o args
                           [] OTHER -> args
                 r == Invoke(field_cleaner.name, recv, {})
             IN  [res |-> r,
                  calls |-> <<CallEntry(h, 1, cleaner_callable, field_cleaner.name,
                                        args, args, recv, {}, r)>>]
        ELSE [res |-> r3,
              calls |-> <<CallEntry(h, 3, cleaner_callable, raw, args, args, args, {}, r3)>>]

\* call_cleaner using the instance's attribute only when it is the
\* registered callable.
call_cleaner_own(cleaner_callable, args, instance, h) ==
    LET field_cleaner == GetAttr(instance, Name(cleaner_callable))
        raw == RawOf(cleaner_callable)
        r2 == Invoke(raw, <<InstArg>> \o args, {})
        c2 == CallEntry(h, 2, cleaner_callable, raw, args, <<InstArg>> \o args,
                        <<InstArg>> \o args, {}, r2)
        r3 == Invoke(raw, args, {})
    IN  IF field_cleaner.t = "callable" /\ field_cleaner.name = raw
        THEN LET b == Binding(field_cleaner.name)
                 recv == CASE b = "method" -> <<InstArg>> \o args
                           [] b = "classmethod" -> <<ClsArg>> \o args
                           [] OTHER -> args
                 r == Invoke(field_cleaner.name, recv, {})
             IN  [res |-> r,
                  calls |-> <<CallEntry(h, 1, cleaner_callable, field_cleaner.name,
                                        args, args, recv, {}, r)>>]
        ELSE IF r2.ok \/ r2.err.kind # "TypeError" \/ ~ArityPattern(r2.err)
        THEN [res |-> r2, calls |-> <<c2>>]
        ELSE [res |-> r3,
              calls |-> <<c2, CallEntry(h, 3, cleaner_callable, raw, args,
                                        args, args, {}, r3)>>]

\* call_cleaner falling back on every TypeError of the instance-first call.
call_cleaner_any_type_error(cleaner_callable, args, instance, h) ==
    LET field_cleaner == GetAttr(instance, Name(cleaner_callable))
        raw == RawOf(cleaner_callable)
        r2 == Invoke(raw, <<InstArg>> \o args, {})
        c2 == CallEntry(h, 2, cleaner_callable, raw, args, <<InstArg>> \o args,
                        <<InstArg>> \o args, {}, r2)
        r3 == Invoke(raw, args, {})
    IN  IF field_cleaner.t = "callable"
        THEN LET b == Binding(field_cleaner.name)
                 recv == CASE b = "method" -> <<InstArg>> \o args
                           [] b = "classmethod" -> <<ClsArg>> \o args
                           [] OTHER -> args
                 r == Invoke(field_cleaner.name, recv, {})
             IN  [res |-> r,
                  calls |-> <<CallEntry(h, 1, cleaner_callable, field_cleaner.name,
                                        args, args, recv, {}, r)>>]
        ELSE IF r2.ok \/ r2.err.kind # "TypeError" THEN [res |-> r2, calls |-> <<c2>>]
        ELSE [res |-> r3,
              calls |-> <<c2, CallEntry(h, 3, cleaner_callable, raw, args,
                                        args, args, {}, r3)>>]

\* decorators.py:102-141.  Returns the result and the calls made, in order.
\* h tags the calls with the receiver that made them.
call_cleaner(cleaner_callable, args, instance, h) ==
    LET field_cleaner == GetAttr(instance, Name(cleaner_callable))
        isNone == field_cleaner.t = "absent"
                  \/ (field_cleaner.t = "value" /\ field_cleaner.v = None)
    IN  IF ~isNone
        THEN \* field_cleaner(*args)
             IF field_cleaner.t = "value"
             THEN LET r == Raise(Err("TypeError", "not callable", 0), "signature")
                  IN  [res |-> r,
                       calls |-> <<CallEntry(h, 1, cleaner_callable, "", args, args, args, {}, r)>>]
             ELSE LET b == Binding(field_cleaner.name)
                      recv == CASE b = "method" -> <<InstArg>> \o args
                                [] b = "classmethod" -> <<ClsArg>> \o args
                                [] OTHER -> args
                      r == Invoke(field_cleaner.name, recv, {})
                  IN  [res |-> r,
                       calls |-> <<CallEntry(h, 1, cleaner_callable, field_cleaner.name,
                                             args, args, recv, {}, r)>>]
        ELSE \* cleaner_callable(instance, *args)
             LET raw == RawOf(cleaner_callable)
                 r2 == Invoke(raw, <<InstArg>> \o args, {})
                 c2 == CallEntry(h, 2, cleaner_callable, raw, args, <<InstArg>> \o args,
                                 <<InstArg>> \o args, {}, r2)
             IN  IF r2.ok \/ r2.err.kind # "TypeError" \/ ~ArityPattern(r2.err)
                 THEN [res |-> r2, calls |-> <<c2>>]
                 ELSE \* cleaner_callable(*args)
                      LET r3 == Invoke(raw, args, {})
                      IN  [res |-> r3,
                           calls |-> <<c2, CallEntry(h, 3, cleaner_callable, raw, args,
                                                     args, args, {}, r3)>>]

\* ------------------------------------------------------------------- state
VARIABLES
    receivers,   \* pre_save's receivers, in connection order: one per decorator application
    inst,        \* the instance the running operation was given
    sargs,       \* the arguments given to save()
    applied,     \* the decorator applications made so far, in order
    pc,          \* "idle", "pre_save" (inside Model.save), "saved", "raised", "returned"
    idx,         \* the receiver pre_save.send reaches next
    log,         \* what the running operation did so far
    error        \* the error that left the operation
vars == <<receivers, applied, inst, sargs, pc, idx, log, error>>

P == "cleans_field"
X == "cleans_field_with_context"
\* The decorator applications of the user program: the decorator, the field
\* reference app_name.ModelName.field_name as its three parts, the callable.
Decl(kind, model, field, cleaner) ==
    [kind |-> kind, field_ref |-> <<"app", model, field>>, cleaner |-> cleaner]
Decls == {
    Decl(P, "M", "f", "add_one"), Decl(P, "M", "f", "add_two"),
    Decl(P, "M", "f", "inc_or_one"),
    Decl(P, "M", "g", "stacked"), Decl(P, "M", "f", "static_inc"),
    Decl(P, "M", "f", "class_inc"), Decl(P, "M", "f", "fn_inc"),
    Decl(P, "M", "f", "fn_raise"), Decl(P, "M", "g", "m_raise"),
    Decl(P, "M", "f", "stacked_misuse"), Decl(P, "M", "f", "other_add_one"),
    Decl(P, "M", "nf", "add_one"), Decl(P, "M", "h", "add_one"),
    Decl(P, "M", "f", "stacked_type_raise"),
    Decl(P, "N", "f", "fn_inc"), Decl(P, "N", "f", "fn_f"),
    Decl(X, "M", "f", "add_one_ctx"), Decl(X, "M", "f", "add_two_ctx"),
    Decl(X, "M", "f", "use_ctx"), Decl(X, "M", "g", "fn_inc_ctx"),
    Decl(X, "M", "nf", "add_one_ctx"), Decl(X, "M", "h", "add_one_ctx"),
    Decl(X, "M", "g", "stacked_ctx"), Decl(X, "M", "f", "static_inc_ctx"),
    Decl(X, "M", "f", "class_inc_ctx"), Decl(X, "M", "f", "stacked_raise_ctx"),
    Decl(X, "M", "f", "ctx_set") }
SaveArgs == {"", "force_insert=True"}

\* utils.py:50-62 parse_field_ref: the model label and the field name.
parse_field_ref(field_ref) ==
    [model_label |-> <<field_ref[1], field_ref[2]>>, field_name |-> field_ref[3]]

Init ==
    /\ receivers = <<>>
    /\ applied = <<>>
    /\ inst = NoInstance
    /\ sargs = ""
    /\ pc = "idle"
    /\ idx = 0
    /\ log = <<>>
    /\ error = NoErr

\* ------------------------------------------------------------ registration
\* Connect putting the new receiver in front of the earlier ones.
Connect_prepend(rs, kind, field_ref, cleaner_function) ==
    LET p == parse_field_ref(field_ref)
    IN  <<[kind |-> kind, model_label |-> p.model_label, field_name |-> p.field_name,
           cleaner_function |-> cleaner_function]>> \o rs

\* Connect replacing the receiver already connected for the same field.
Connect_replace(rs, kind, field_ref, cleaner_function) ==
    LET p == parse_field_ref(field_ref)
        new == [kind |-> kind, model_label |-> p.model_label, field_name |-> p.field_name,
                cleaner_function |-> cleaner_function]
        same(r) == r.model_label = p.model_label /\ r.field_name = p.field_name
    IN  IF \E i \in DOMAIN rs : same(rs[i])
        THEN [i \in DOMAIN rs |-> IF same(rs[i]) THEN new ELSE rs[i]]
        ELSE Append(rs, new)

\* decorators.py:17-55 and 58-99: cleans_field(field_ref)(cleaner_function)
\* connects one signal_handler to pre_save for the sender model_label.
Connect(rs, kind, field_ref, cleaner_function) ==
    LET p == parse_field_ref(field_ref)
    IN  Append(rs, [kind |-> kind, model_label |-> p.model_label,
                    field_name |-> p.field_name,
                    cleaner_function |-> cleaner_function])

Register(kind, field_ref, cleaner_function) ==
    /\ pc = "idle"
    /\ Len(receivers) < MaxHandlers
    /\ receivers' = Connect(receivers, kind, field_ref, cleaner_function)
    /\ applied' = Append(applied, Decl(kind, field_ref[2], field_ref[3], cleaner_function))
    /\ UNCHANGED <<inst, sargs, pc, idx, log, error>>

\* ---------------------------------------------------------- signal handlers
\* The handler writing the field in a finally clause: None when the cleaner
\* raised.
cleans_field_handler_finally(r, instance, h) ==
    LET fv == get_model_field_value(instance, r.field_name)
    IN  IF ~fv.ok
        THEN [instance |-> instance,
              err |-> CleanFieldsConfigurationError(r.model_label, r.field_name,
                                                    Name(r.cleaner_function)),
              log |-> <<>>]
        ELSE LET c == call_cleaner(r.cleaner_function, <<ValArg(fv.ret)>>, instance, h)
             IN  [instance |-> SetAttr(instance, r.field_name, c.res.ret),
                  err |-> c.res.err,
                  log |-> Append(c.calls, WriteEntry(h, r.field_name, c.res.ret))]

\* decorators.py:29-46: the handler cleans_field connects.  Returns the
\* instance it leaves, the error it raises (NoErr: none) and what it did.
cleans_field_handler(r, instance, h) ==
    LET fv == get_model_field_value(instance, r.field_name)
    IN  IF ~fv.ok
        THEN [instance |-> instance,
              err |-> CleanFieldsConfigurationError(r.model_label, r.field_name,
                                                    Name(r.cleaner_function)),
              log |-> <<>>]
        ELSE LET c == call_cleaner(r.cleaner_function, <<ValArg(fv.ret)>>, instance, h)
             IN  IF ~c.res.ok
                 THEN [instance |-> instance, err |-> c.res.err, log |-> c.calls]
                 ELSE [instance |-> SetAttr(instance, r.field_name, c.res.ret),
                       err |-> NoErr,
                       log |-> Append(c.calls, WriteEntry(h, r.field_name, c.res.ret))]

\* The context built from every attribute of the instance instead of from
\* its field names.
RECURSIVE BuildContext_attrs(_, _, _)
BuildContext_attrs(instance, names, context) ==
    IF names = <<>>
    THEN [ok |-> TRUE, err |-> NoErr,
          context |-> context \cup {<<a, instance.attrs[a]>> : a \in DOMAIN instance.attrs}]
    ELSE LET v == get_model_field_value(instance, Head(names))
         IN  IF ~v.ok THEN [ok |-> FALSE, err |-> v.err, context |-> context]
             ELSE BuildContext_attrs(instance, Tail(names), context)

\* decorators.py:74-76: the context dict, one key per field name.
RECURSIVE BuildContext(_, _, _)
BuildContext(instance, names, context) ==
    IF names = <<>> THEN [ok |-> TRUE, err |-> NoErr, context |-> context]
    ELSE LET v == get_model_field_value(instance, Head(names))
         IN  IF ~v.ok THEN [ok |-> FALSE, err |-> v.err, context |-> context]
             ELSE BuildContext(instance, Tail(names),
                               {p \in context : p[1] # Head(names)}
                                   \cup {<<Head(names), v.ret>>})

\* The handler writing back the value it read instead of the cleaned one.
cleans_field_with_context_handler_uncleaned(r, instance, h) ==
    LET b == BuildContext(instance, get_model_field_names(instance), {})
    IN  IF ~b.ok
        THEN [instance |-> instance, err |-> b.err, log |-> <<>>]
        ELSE IF ~\E p \in b.context : p[1] = r.field_name
        THEN [instance |-> instance,
              err |-> CleanFieldsConfigurationError(r.model_label, r.field_name,
                                                    Name(r.cleaner_function)),
              log |-> <<>>]
        ELSE LET field_value == (CHOOSE p \in b.context : p[1] = r.field_name)[2]
                 c == call_cleaner(r.cleaner_function,
                                   <<ValArg(field_value), CtxArg(b.context)>>,
                                   instance, h)
             IN  IF ~c.res.ok
                 THEN [instance |-> instance, err |-> c.res.err, log |-> c.calls]
                 ELSE [instance |-> SetAttr(instance, r.field_name, field_value),
                       err |-> NoErr,
                       log |-> Append(c.calls, WriteEntry(h, r.field_name, field_value))]

\* The handler copying the items the cleaner assigned in the context back to
\* the instance after it wrote the field.
cleans_field_with_context_handler_copy_back(r, instance, h) ==
    LET b == BuildContext(instance, get_model_field_names(instance), {})
    IN  IF ~b.ok
        THEN [instance |-> instance, err |-> b.err, log |-> <<>>]
        ELSE IF ~\E p \in b.context : p[1] = r.field_name
        THEN [instance |-> instance,
              err |-> CleanFieldsConfigurationError(r.model_label, r.field_name,
                                                    Name(r.cleaner_function)),
              log |-> <<>>]
        ELSE LET field_value == (CHOOSE p \in b.context : p[1] = r.field_name)[2]
                 c == call_cleaner(r.cleaner_function,
                                   <<ValArg(field_value), CtxArg(b.context)>>,
                                   instance, h)
                 written == SetAttr(instance, r.field_name, c.res.ret)
             IN  IF ~c.res.ok
                 THEN [instance |-> instance, err |-> c.res.err, log |-> c.calls]
                 ELSE [instance |->
                          [written EXCEPT !.attrs =
                              [a \in DOMAIN written.attrs |->
                                  IF a # r.field_name /\ \E p \in c.res.setitems : p[1] = a
                                  THEN (CHOOSE p \in c.res.setitems : p[1] = a)[2]
                                  ELSE written.attrs[a]]],
                       err |-> NoErr,
                       log |-> Append(c.calls, WriteEntry(h, r.field_name, c.res.ret))]

\* decorators.py:71-91: the handler cleans_field_with_context connects.
cleans_field_with_context_handler(r, instance, h) ==
    LET b == BuildContext(instance, get_model_field_names(instance), {})
    IN  IF ~b.ok
        THEN [instance |-> instance, err |-> b.err, log |-> <<>>]
        ELSE IF ~\E p \in b.context : p[1] = r.field_name
        THEN [instance |-> instance,
              err |-> CleanFieldsConfigurationError(r.model_label, r.field_name,
                                                    Name(r.cleaner_function)),
              log |-> <<>>]
        ELSE LET field_value == (CHOOSE p \in b.context : p[1] = r.field_name)[2]
                 c == call_cleaner(r.cleaner_function,
                                   <<ValArg(field_value), CtxArg(b.context)>>,
                                   instance, h)
             IN  IF ~c.res.ok
                 THEN [instance |-> instance, err |-> c.res.err, log |-> c.calls]
                 ELSE [instance |-> SetAttr(instance, r.field_name, c.res.ret),
                       err |-> NoErr,
                       log |-> Append(c.calls, WriteEntry(h, r.field_name, c.res.ret))]

\* One receiver of pre_save.send(sender=type(instance), instance=instance):
\* the handler runs, and an error it raises leaves send and Model.save.
RunHandler(out) ==
    /\ inst' = out.instance
    /\ log' = log \o out.log
    /\ IF out.err = NoErr
       THEN /\ idx' = idx + 1
            /\ pc' = "pre_save"
            /\ error' = NoErr
       ELSE /\ idx' = idx
            /\ pc' = "raised"
            /\ error' = out.err
    /\ UNCHANGED <<receivers, applied, sargs>>

signal_handler ==
    /\ pc = "pre_save"
    /\ idx <= Len(receivers)
    /\ receivers[idx].model_label = Label(inst.model)
    /\ receivers[idx].kind = P
    /\ RunHandler(cleans_field_handler(receivers[idx], inst, idx))

signal_handler_with_context ==
    /\ pc = "pre_save"
    /\ idx <= Len(receivers)
    /\ receivers[idx].model_label = Label(inst.model)
    /\ receivers[idx].kind = X
    /\ RunHandler(cleans_field_with_context_handler(receivers[idx], inst, idx))

\* decorators.py:29, sender=model_label: a receiver connected for another
\* sender is not called.
OtherSender ==
    /\ pc = "pre_save"
    /\ idx <= Len(receivers)
    /\ receivers[idx].model_label # Label(inst.model)
    /\ idx' = idx + 1
    /\ UNCHANGED <<receivers, applied, inst, sargs, pc, log, error>>

\* ------------------------------------------------------------------- save
\* The class attribute clean_<field_name> of the entity classes: N.clean_f
\* R.clean_f and R.clean_k return the field's value plus one (one when the
\* field is empty), R.clean_g
\* raises, M.clean_g is the string 'not callable', Z.clean_f the string ''.
NamedAttr(model, field_name) ==
    CASE model \in {"N", "R"} /\ field_name = "f" -> "inc"
      [] model = "R" /\ field_name = "k" -> "inc"
      [] model = "R" /\ field_name = "g" -> "raise"
      [] model = "M" /\ field_name = "g" -> "not callable"
      [] model = "Z" /\ field_name = "f" -> "empty string"
      [] OTHER -> "absent"

\* bool(x) and callable(x) of what getattr(self, 'clean_<field>', None) gives.
Truthy(x) == x \notin {"None", "absent", "empty string"}
Callable(x) == x \in {"inc", "raise"}

\* models.py:61-74 CleanFieldsModel._get_field_cleaner: getattr with the
\* default None; a truthy attribute that is not callable becomes None.
get_field_cleaner(instance, field_name) ==
    LET a == NamedAttr(instance.model, field_name)
        field_cleaner == IF a = "absent" THEN "None" ELSE a
    IN  IF Truthy(field_cleaner) /\ ~Callable(field_cleaner) THEN "None"
        ELSE field_cleaner

\* models.py:39-49 BaseCleanFieldsModel._get_field_cleaner
base_get_field_cleaner(instance, field_name) ==
    Raise(Err("NotImplementedError", "", 0), "models")

\* self._get_field_cleaner(field_name) on the instance's class: what it
\* returns (cleaner) or raises.
lookup_field_cleaner(instance, field_name) ==
    IF instance.model = "B"
    THEN [res |-> base_get_field_cleaner(instance, field_name), cleaner |-> ""]
    ELSE [res |-> Ret(None), cleaner |-> get_field_cleaner(instance, field_name)]
LookupEntry(field_name, l) ==
    [Entry("_get_field_cleaner") EXCEPT !.field = field_name, !.raw = l.cleaner,
                                        !.res = l.res]

\* Calling what _get_field_cleaner returned, with no arguments: the user's
\* clean_<field>(self) reads the field and returns the cleaned value.
NamedBody(cleaner, instance, field_name) ==
    CASE cleaner = "inc" -> IncOrOne(ValArg(instance.attrs[field_name]))
      [] cleaner = "raise" -> Raise(Err("ValueError", "bad value", 0), "body")
      [] OTHER -> Raise(Err("TypeError", "not callable", 0), "signature")

\* clean_single_fields dropping what the cleaner returns.
RECURSIVE clean_single_fields_discard(_, _)
clean_single_fields_discard(instance, field_names) ==
    IF field_names = <<>> THEN [instance |-> instance, err |-> NoErr, log |-> <<>>]
    ELSE LET field_name == Head(field_names)
             l == lookup_field_cleaner(instance, field_name)
             r == NamedBody(l.cleaner, instance, field_name)
             call == CallEntry(0, 0, "clean_" \o field_name, l.cleaner,
                               <<>>, <<>>, <<InstArg>>, {}, r)
             rest == clean_single_fields_discard(instance, Tail(field_names))
         IN  IF ~l.res.ok
             THEN [instance |-> instance, err |-> l.res.err,
                   log |-> <<LookupEntry(field_name, l)>>]
             ELSE IF ~Truthy(l.cleaner)
             THEN [rest EXCEPT !.log = <<LookupEntry(field_name, l)>> \o rest.log]
             ELSE IF ~r.ok
             THEN [instance |-> instance, err |-> r.err,
                   log |-> <<LookupEntry(field_name, l), call>>]
             ELSE [rest EXCEPT !.log = <<LookupEntry(field_name, l), call>> \o rest.log]

\* models.py:31-37 clean_single_fields, over the field names left to visit.
RECURSIVE clean_single_fields(_, _)
clean_single_fields(instance, field_names) ==
    IF field_names = <<>> THEN [instance |-> instance, err |-> NoErr, log |-> <<>>]
    ELSE LET field_name == Head(field_names)
             l == lookup_field_cleaner(instance, field_name)
         IN  IF ~l.res.ok
             THEN [instance |-> instance, err |-> l.res.err,
                   log |-> <<LookupEntry(field_name, l)>>]
             ELSE IF ~Truthy(l.cleaner)
             THEN LET rest == clean_single_fields(instance, Tail(field_names))
                  IN  [rest EXCEPT !.log = <<LookupEntry(field_name, l)>> \o rest.log]
             ELSE LET r == NamedBody(l.cleaner, instance, field_name)
                      call == CallEntry(0, 0, "clean_" \o field_name, l.cleaner,
                                        <<>>, <<>>, <<InstArg>>, {}, r)
                  IN  IF ~r.ok
                      THEN [instance |-> instance, err |-> r.err,
                            log |-> <<LookupEntry(field_name, l), call>>]
                      ELSE LET rest == clean_single_fields(
                                           SetAttr(instance, field_name, r.ret),
                                           Tail(field_names))
                           IN  [rest EXCEPT !.log =
                                   <<LookupEntry(field_name, l), call,
                                     WriteEntry(0, field_name, r.ret)>> \o rest.log]

\* save calling Model.save first and the cleaners after it.
save_model_persist_first(instance, args) ==
    LET out == clean_single_fields(instance, get_model_field_names(instance))
        start == [Entry("save") EXCEPT !.sargs = args, !.obj = instance]
    IN  [out EXCEPT !.log = <<start, [Entry("Model.save") EXCEPT !.sargs = args],
                               Entry("clean_single_fields")>> \o out.log]

\* models.py:26-29 BaseCleanFieldsModel.save: the cleaners, then Model.save
\* with the same arguments.  Model.save sends pre_save before it writes.
save_model(instance, args) ==
    LET out == clean_single_fields(instance, get_model_field_names(instance))
        start == [Entry("save") EXCEPT !.sargs = args, !.obj = instance]
    IN  IF out.err = NoErr
        THEN [out EXCEPT !.log = <<start, Entry("clean_single_fields")>> \o out.log
                                  \o <<[Entry("Model.save") EXCEPT !.sargs = args]>>]
        ELSE [out EXCEPT !.log = <<start, Entry("clean_single_fields")>> \o out.log]

save(instance, args) ==
    /\ pc = "idle"
    /\ sargs' = args
    /\ LET out == save_model(instance, args)
       IN  /\ inst' = out.instance
           /\ log' = out.log
           /\ error' = out.err
           /\ IF out.err = NoErr
              THEN pc' = "pre_save" /\ idx' = 1
              ELSE pc' = "raised" /\ idx' = 0
    /\ UNCHANGED <<receivers, applied>>

\* Model.save after pre_save.send returned: the row is written.
Persist ==
    /\ pc = "pre_save"
    /\ idx > Len(receivers)
    /\ log' = Append(log, Entry("write row"))
    /\ pc' = "saved"
    /\ UNCHANGED <<receivers, applied, inst, sargs, idx, error>>

\* ------------------------------------------------------------ direct calls
\* The returned callable dropping the keyword arguments.
run_cleaner_positional(r, instance, args, kwargs) ==
    LET res == Invoke(RawOf(r.cleaner_function), args, {})
    IN  [res |-> res, instance |-> instance,
         log |-> <<CallEntry(0, 0, r.cleaner_function, RawOf(r.cleaner_function),
                             args, args, args, {}, res)>>]

\* decorators.py:51-52 and 95-96: what the decorator returned, called by
\* the user: cleaner_function(*args, **kwargs).
run_cleaner(r, instance, args, kwargs) ==
    LET res == Invoke(RawOf(r.cleaner_function), args, kwargs)
    IN  [res |-> res, instance |-> instance,
         log |-> <<CallEntry(0, 0, r.cleaner_function, RawOf(r.cleaner_function),
                             args, args, args, kwargs, res)>>]

DirectArgs == {<<ValArg(0)>>, <<InstArg, ValArg(1)>>,
               <<InstArg, ValArg(0), CtxArg({<<"f", 1>>})>>}
DirectKwargs == {{}, {"strict"}}
DirectInstances == {[model |-> "M", attrs |-> [f |-> 0, g |-> 1, h |-> 0]],
                    [model |-> "N", attrs |-> [f |-> None]]}

\* The user calls the i-th decorator application's result; instance is the
\* instance at hand (the one InstArg stands for).
RunCleaner(i, instance, args, kwargs) ==
    /\ pc = "idle"
    /\ i \in 1..Len(receivers)
    /\ LET out == run_cleaner(receivers[i], instance, args, kwargs)
       IN  /\ log' = <<[Entry("direct") EXCEPT !.h = i, !.args = args, !.kw = kwargs,
                                               !.res = out.res, !.obj = instance]>>
                       \o out.log
           /\ error' = out.res.err
           /\ inst' = out.instance
    /\ pc' = "returned"
    /\ UNCHANGED <<receivers, applied, sargs, idx>>

\* The operation returns to (or its error reaches) the caller.
Return ==
    /\ pc \in {"saved", "raised", "returned"}
    /\ pc' = "idle"
    /\ inst' = NoInstance
    /\ sargs' = ""
    /\ idx' = 0
    /\ log' = <<>>
    /\ error' = NoErr
    /\ UNCHANGED <<receivers, applied>>

Next ==
    \/ \E d \in Decls : Register(d.kind, d.field_ref, d.cleaner)
    \/ \E i \in Instances, a \in SaveArgs : save(i, a)
    \/ signal_handler
    \/ signal_handler_with_context
    \/ OtherSender
    \/ Persist
    \/ \E i \in 1..MaxHandlers, o \in DirectInstances, args \in DirectArgs, kw \in DirectKwargs :
          RunCleaner(i, o, args, kw)
    \/ Return

Spec == Init /\ [][Next]_vars

\* ================================================================== claims
\* Reading the log of the running save.
Max(S) == CHOOSE x \in S : \A y \in S : y <= x
InSave == pc \in {"pre_save", "saved", "raised"}
Matches(h) == receivers[h].model_label = Label(inst.model)
\* pre_save.send reached receiver h and it returned / it raised.
Returned(h) == InSave /\ h \in 1..Len(receivers) /\ Matches(h) /\ idx > h
Raised(h) == pc = "raised" /\ h \in 1..Len(receivers) /\ idx = h
IsCall(i) == log[i].e = "call"
\* The value attribute f holds after the first n entries of the log.
ValueAfter(n, f) ==
    LET ws == {i \in 1..n : log[i].e = "write" /\ log[i].field = f}
    IN  IF ws = {} THEN log[1].obj.attrs[f] ELSE log[Max(ws)].val
FieldsOf(instance) ==
    {get_model_field_names(instance)[i] : i \in DOMAIN get_model_field_names(instance)}

\* C1: a handler registered (by either decorator) for a name that is not a
\* field of the entity raises CleanFieldsConfigurationError on every pre-save
\* event, whatever other attributes the instance has, and its cleaner is not
\* called.
C1_MissingFieldRaisesConfigurationError ==
    \A h \in 1..Len(receivers) :
        ((Returned(h) \/ Raised(h)) /\ receivers[h].field_name \notin FieldsOf(inst))
        => /\ Raised(h)
           /\ error.kind = "CleanFieldsConfigurationError"
           /\ \A i \in DOMAIN log : ~(IsCall(i) /\ log[i].h = h)

\* C2: when the handler of a registration on field f has returned and its
\* cleaner was called on f's prior value and returned V, f holds V; for both
\* decorators.
C2_FieldHoldsCleanerResult ==
    \A h \in 1..Len(receivers) :
        (Returned(h) /\ ~\E j \in DOMAIN log : log[j].h > h)
        => \A i \in DOMAIN log :
              ( /\ IsCall(i) /\ log[i].h = h /\ log[i].res.ok
                /\ log[i].raw = RawOf(receivers[h].cleaner_function)
                /\ \E k \in DOMAIN log[i].recv :
                      log[i].recv[k] = ValArg(ValueAfter(i - 1, receivers[h].field_name)) )
              => inst.attrs[receivers[h].field_name] = log[i].res.ret

\* A save with one cleans_field_with_context registration on f has finished,
\* the cleaner returned a value other than the one f held, and f holds it.
C2_Witness ==
    /\ pc = "saved" /\ Len(receivers) = 1 /\ receivers[1].kind = X
    /\ receivers[1].field_name = "f"
    /\ \E i \in DOMAIN log :
          /\ IsCall(i) /\ log[i].h = 1 /\ log[i].res.ok
          /\ log[i].res.ret # log[1].obj.attrs["f"]
          /\ inst.attrs["f"] = log[i].res.ret

\* What the catalogue's plain cleaners compute.
SimpleCleaners == {"add_one", "add_two", "static_inc", "class_inc", "fn_inc", "stacked",
                   "add_one_ctx", "add_two_ctx", "static_inc_ctx", "class_inc_ctx",
                   "fn_inc_ctx", "stacked_ctx"}
SimpleFn(c, v) == IF c \in {"add_two", "add_two_ctx"} THEN v + 2 ELSE v + 1
\* The cleaners applied to field f of the saved entity, in the order of the
\* decorator applications 1..k, composed on v.
RECURSIVE Composition(_, _, _)
Composition(k, f, v) ==
    IF k = 0 THEN v
    ELSE IF applied[k].field_ref = <<"app", inst.model, f>>
    THEN SimpleFn(applied[k].cleaner, Composition(k - 1, f, v))
    ELSE Composition(k - 1, f, v)
\* The entry of Model.save's call: the pre-save event starts after it.
SaveCall == CHOOSE i \in DOMAIN log : log[i].e = "Model.save"

\* C3: the handlers of a pre-save event run in the order of the decorator
\* applications; each cleaner receives the value the previous handler on the
\* same field wrote back (the first the original value); the field finally
\* holds the last result, the in-order composition of the cleaners.
C3_CleanersApplyInRegistrationOrder ==
    (InSave /\ idx >= 1) =>
    /\ \A i, j \in DOMAIN log : (i < j /\ log[i].h >= 1 /\ log[j].h >= 1) => log[i].h <= log[j].h
    /\ \A i \in DOMAIN log : (IsCall(i) /\ log[i].h >= 1) =>
          /\ log[i].h <= Len(applied)
          /\ log[i].cleaner = applied[log[i].h].cleaner
          /\ LET f == applied[log[i].h].field_ref[3]
                 prev == {j \in 1..(i - 1) : /\ IsCall(j) /\ log[j].res.ok
                                            /\ log[j].h \in 1..(log[i].h - 1)
                                            /\ applied[log[j].h].field_ref[3] = f}
             IN  log[i].given[1] = ValArg(IF prev = {} THEN ValueAfter(SaveCall, f)
                                          ELSE log[Max(prev)].res.ret)
    /\ pc = "saved" =>
          \A f \in DOMAIN inst.attrs :
             /\ LET last == {j \in DOMAIN log : /\ IsCall(j) /\ log[j].res.ok /\ log[j].h >= 1
                                                /\ applied[log[j].h].field_ref[3] = f}
                IN  inst.attrs[f] = IF last = {} THEN ValueAfter(SaveCall, f)
                                    ELSE log[Max(last)].res.ret
             /\ (\A k \in 1..Len(applied) :
                    applied[k].field_ref = <<"app", inst.model, f>>
                    => applied[k].cleaner \in SimpleCleaners)
                => inst.attrs[f] = Composition(Len(applied), f, ValueAfter(SaveCall, f))

\* add_two and then add_one_ctx were registered on f and both ran: add_two
\* was called first, add_one_ctx received what add_two returned, and f
\* holds the value plus three.
C3_Witness ==
    /\ pc = "saved" /\ Len(applied) = 2
    /\ applied[1] = Decl(P, "M", "f", "add_two")
    /\ applied[2] = Decl(X, "M", "f", "add_one_ctx")
    /\ \E i, j \in DOMAIN log :
          /\ i < j
          /\ IsCall(i) /\ log[i].raw = "add_two"
          /\ log[i].given[1] = ValArg(log[1].obj.attrs["f"])
          /\ IsCall(j) /\ log[j].raw = "add_one_ctx"
          /\ log[j].given[1] = ValArg(log[1].obj.attrs["f"] + 2)
    /\ inst.attrs["f"] = log[1].obj.attrs["f"] + 3

\* C4: an error raised by the cleaner's own body during a pre-save handler
\* leaves the handler unchanged, whatever its kind and the calling
\* convention, and no call of the cleaner follows it.
C4_CleanerErrorPropagatesUnchanged ==
    \A i \in DOMAIN log :
        (IsCall(i) /\ log[i].h >= 1 /\ ~log[i].res.ok /\ log[i].res.origin = "body")
        => /\ pc = "raised"
           /\ error = log[i].res.err
           /\ \A j \in DOMAIN log : j > i => ~IsCall(j)

\* The calls handler h made, in order.
CallsOf(h) == SelectSeq(log, LAMBDA e : e.e = "call" /\ e.h = h)

\* C5: call_cleaner tries (1) the instance's attribute named like the
\* cleaner, with the args, (2) the cleaner with the instance and the args,
\* (3) the cleaner with the args, in this order, stops at the first that
\* succeeds and returns its result.
C5_ConventionsInFixedOrder ==
    \A h \in 1..Len(receivers) :
        LET cs == CallsOf(h)
        IN  (InSave /\ cs # <<>>) =>
            /\ Len(cs) <= 2
            /\ \A k \in DOMAIN cs :
                  /\ cs[k].conv \in 1..3
                  /\ k > 1 => (cs[k - 1].conv < cs[k].conv /\ ~cs[k - 1].res.ok)
                  /\ cs[k].conv = 3 => (k = 2 /\ cs[1].conv = 2)
                  /\ cs[k].conv = 1 =>
                        /\ GetAttr(inst, Name(receivers[h].cleaner_function)).t # "absent"
                        /\ GetAttr(inst, Name(receivers[h].cleaner_function)).t = "callable"
                              => cs[k].raw = Name(receivers[h].cleaner_function)
                        /\ cs[k].args = cs[k].given
                  /\ cs[k].conv = 2 =>
                        /\ cs[k].raw = RawOf(receivers[h].cleaner_function)
                        /\ cs[k].args = <<InstArg>> \o cs[k].given
                  /\ cs[k].conv = 3 =>
                        /\ cs[k].raw = RawOf(receivers[h].cleaner_function)
                        /\ cs[k].args = cs[k].given
            /\ Returned(h) =>
                  /\ cs[Len(cs)].res.ok
                  /\ \E i \in DOMAIN log :
                        /\ log[i].e = "write" /\ log[i].h = h
                        /\ log[i].val = cs[Len(cs)].res.ret

\* A handler whose cleaner is a plain function: the call with the instance
\* raised the arity TypeError, the call with the args alone returned.
C5_Witness ==
    \E h \in 1..Len(receivers) :
        /\ Returned(h)
        /\ Len(CallsOf(h)) = 2
        /\ CallsOf(h)[1].conv = 2 /\ ~CallsOf(h)[1].res.ok
        /\ CallsOf(h)[2].conv = 3 /\ CallsOf(h)[2].res.ok

IsStep(i) == log[i].e \in {"call", "write"}
Count(e) == Cardinality({i \in DOMAIN log : log[i].e = e})

\* C6: in BaseCleanFieldsModel.save every call of a clean_<field> method and
\* every write of its result precedes the call of Model.save, every cleaner
\* call and write of the save precedes the writing of the row, and when no
\* cleaner raised Model.save is called exactly once, with save's arguments.
C6_CleanersBeforePersist ==
    InSave =>
    /\ \A i, j \in DOMAIN log :
          /\ (IsStep(i) /\ log[i].h = 0 /\ log[j].e = "Model.save") => i < j
          /\ (IsStep(i) /\ log[j].e = "write row") => i < j
          /\ (log[i].e = "Model.save" /\ log[j].e = "write row") => i < j
    /\ (error = NoErr) =>
          /\ Count("Model.save") = 1
          /\ log[SaveCall].sargs = log[1].sargs
          /\ log[1].sargs = sargs
    /\ pc = "saved" => Count("write row") = 1
    /\ pc # "saved" => Count("write row") = 0

\* A save with arguments has finished: a clean_<field> method and a
\* registered cleaner both ran and wrote before the row was written.
C6_Witness ==
    /\ pc = "saved" /\ sargs = "force_insert=True" /\ inst.model = "N"
    /\ \E i, j \in DOMAIN log :
          /\ IsCall(i) /\ log[i].h = 0 /\ log[i].res.ok
          /\ IsCall(j) /\ log[j].h >= 1 /\ log[j].res.ok
          /\ i < SaveCall /\ SaveCall < j
    /\ log[Len(log)].e = "write row"

\* C7: once a configuration error or an error of a cleaner is raised in a
\* save, the save is aborted: the row is never written, no later cleaner
\* runs (of the clean_<field> methods: Model.save is not called either), and
\* nothing is retried: no callable is called again after a cleaner's own
\* body raised, and the only second call a handler makes is call_cleaner's
\* next trial after the interpreter refused the arguments of the first.
C7_ErrorAbortsSave ==
    InSave =>
    /\ (\E i \in DOMAIN log : IsCall(i) /\ ~log[i].res.ok /\ log[i].res.origin = "body")
          => pc = "raised"
    /\ pc = "raised" =>
          /\ error # NoErr
          /\ Count("write row") = 0
          /\ idx = 0 =>
                /\ Count("Model.save") = 0
                /\ log[Len(log)].e \in {"call", "_get_field_cleaner"}
                /\ log[Len(log)].h = 0
                /\ ~log[Len(log)].res.ok /\ log[Len(log)].res.err = error
          /\ idx >= 1 =>
                /\ \A i \in DOMAIN log : log[i].h <= idx
                /\ \A i \in DOMAIN log : log[i].h = idx => IsCall(i)
                /\ error.kind = "CleanFieldsConfigurationError"
                      => \A i \in DOMAIN log : log[i].h < idx
    /\ Count("save") = 1 /\ Count("Model.save") <= 1
    /\ \A i, j \in DOMAIN log :
          (IsCall(i) /\ IsCall(j) /\ i < j)
          => /\ log[i].res.ok \/ log[i].res.origin # "body"
             /\ log[i].h = log[j].h =>
                   IF log[i].h = 0 THEN log[i].cleaner # log[j].cleaner
                   ELSE /\ log[i].conv < log[j].conv
                        /\ ~log[i].res.ok /\ log[i].res.origin = "signature"

\* C8: the context a cleans_field_with_context handler passes to its cleaner
\* has exactly one entry per field name of the instance, each mapped to the
\* value the field holds when the handler starts; it is built by each
\* handler run, never taken from an earlier one.
C8_ContextIsFreshSnapshot ==
    \A i \in DOMAIN log :
        (InSave /\ IsCall(i) /\ log[i].h >= 1) =>
        IF receivers[log[i].h].kind = X
        THEN /\ Len(log[i].given) = 2
             /\ log[i].given[2].t = "ctx"
             /\ log[i].recv[Len(log[i].recv)] = log[i].given[2]
             /\ LET context == log[i].given[2].c
                IN  /\ {p[1] : p \in context} = FieldsOf(inst)
                    /\ Cardinality(context) = Cardinality(FieldsOf(inst))
                    /\ \A p \in context : p[2] = ValueAfter(i - 1, p[1])
        ELSE \A k \in DOMAIN log[i].given : log[i].given[k].t # "ctx"

\* The second of two with-context handlers received a context holding the
\* value the first one wrote, not the value the save started with.
C8_Witness ==
    \E i \in DOMAIN log :
        /\ pc = "saved" /\ inst.model = "M"
        /\ IsCall(i) /\ log[i].h = 2 /\ log[i].res.ok
        /\ receivers[1].kind = X /\ receivers[2].kind = X
        /\ \E p \in log[i].given[2].c :
              p[1] = "f" /\ p[2] # log[1].obj.attrs["f"] /\ p[2] = ValueAfter(i - 1, "f")
        /\ Cardinality(log[i].given[2].c) = 2

\* The receiver a decorator application connects.
ReceiverOf(d) ==
    [kind |-> d.kind, model_label |-> <<d.field_ref[1], d.field_ref[2]>>,
     field_name |-> d.field_ref[3], cleaner_function |-> d.cleaner]

\* C9: each decorator application connects exactly one pre_save receiver,
\* no step removes or replaces one, and a pre-save event of an entity calls
\* every receiver connected so far for it.
C9_HandlersAreNeverRemoved ==
    /\ [](/\ Len(receivers) = Len(applied)
          /\ \A h \in DOMAIN applied : receivers[h] = ReceiverOf(applied[h])
          /\ \A h \in DOMAIN receivers :
                (Matches(h) /\ (pc = "saved" \/ (InSave /\ idx > h)))
                => \E i \in DOMAIN log :
                      IsCall(i) /\ log[i].h = h
                      /\ log[i].cleaner = receivers[h].cleaner_function)
    /\ [][/\ Len(receivers') >= Len(receivers)
          /\ \A h \in DOMAIN receivers : receivers'[h] = receivers[h]
          /\ applied' # applied => Len(receivers') = Len(receivers) + 1]_vars

\* The same decorator was applied twice to the same cleaner and field: two
\* receivers are connected and a save ran both.
C9_Witness ==
    /\ pc = "saved" /\ Len(receivers) = 2
    /\ applied[1] = applied[2] /\ applied[1] = Decl(P, "M", "f", "add_one")
    /\ \E i, j \in DOMAIN log :
          IsCall(i) /\ log[i].h = 1 /\ IsCall(j) /\ log[j].h = 2
    /\ log[1].obj.attrs["f"] # None
    /\ inst.attrs["f"] = log[1].obj.attrs["f"] + 2

\* C10: the callable a decorator returns, called with positional and keyword
\* arguments, calls the decorated cleaner once with these arguments, returns
\* (or raises) what it does, and leaves the instance as it was.
C10_ReturnedCallablePassesThrough ==
    pc = "returned" =>
    /\ Len(log) = 2
    /\ log[1].e = "direct" /\ IsCall(2)
    /\ log[2].cleaner = receivers[log[1].h].cleaner_function
    /\ log[2].raw = RawOf(receivers[log[1].h].cleaner_function)
    /\ log[2].recv = log[1].args
    /\ log[2].kw = log[1].kw
    /\ log[1].res = log[2].res
    /\ error = log[2].res.err
    /\ inst = log[1].obj

\* The callable returned for add_one was called with an instance and 1: it
\* returned add_one's result and the instance's field is what it was.
C10_Witness ==
    /\ pc = "returned"
    /\ receivers[log[1].h].cleaner_function = "add_one"
    /\ log[1].args = <<InstArg, ValArg(1)>>
    /\ log[1].res = Ret(2)
    /\ inst.attrs["f"] = 0

\* The write handler h made, and the value its field held before h ran.
WritesOf(h) == {i \in DOMAIN log : log[i].e = "write" /\ log[i].h = h}
FirstOf(h) == CHOOSE i \in DOMAIN log : log[i].h = h /\ \A j \in DOMAIN log : log[j].h = h => i <= j
\* One method decorated twice, the inner application on f1 and the outer
\* (whose callable is what the inner one returned) on f2, by one decorator.
StackedOnTwoFields ==
    /\ InSave /\ idx >= 1 /\ inst.model = "M"
    /\ Len(applied) = 2
    /\ \/ /\ applied[1].cleaner = "add_one" /\ applied[2].cleaner = "stacked"
          /\ applied[1].kind = P /\ applied[2].kind = P
       \/ /\ applied[1].cleaner = "add_one_ctx" /\ applied[2].cleaner = "stacked_ctx"
          /\ applied[1].kind = X /\ applied[2].kind = X
    /\ applied[1].field_ref[2] = "M" /\ applied[2].field_ref[2] = "M"
    /\ applied[1].field_ref[3] # applied[2].field_ref[3]
    /\ {applied[1].field_ref[3], applied[2].field_ref[3]} \subseteq FieldsOf(inst)

\* C11: a method decorated by two stacked registrations on two different
\* fields is applied by a pre-save event exactly once to each field: each
\* handler makes one call of the method, on its own field's prior value,
\* and each field ends with the method's result for that value; a handler
\* raises only what the method itself raises for the value (the method
\* adds one: TypeError for None).
C11_StackedCleanerOnTwoFields ==
    StackedOnTwoFields =>
    /\ \A h \in 1..2 :
          (idx > h \/ Raised(h)) =>
          LET f == applied[h].field_ref[3]
              cs == CallsOf(h)
          IN  /\ Len(cs) = 1
              /\ cs[1].raw = RawOf(applied[1].cleaner)
              /\ cs[1].given[1] = ValArg(log[1].obj.attrs[f])
              /\ cs[1].res = Plus(ValArg(log[1].obj.attrs[f]), 1)
              /\ Raised(h) <=> log[1].obj.attrs[f] = None
              /\ Raised(h) => error = cs[1].res.err
              /\ idx > h => inst.attrs[f] = log[1].obj.attrs[f] + 1
    /\ pc = "saved" => Cardinality({i \in DOMAIN log : IsCall(i)}) = 2

\* The save finished after both handlers ran on fields that held different
\* values: each field holds the result for its own value.
C11_Witness ==
    /\ StackedOnTwoFields /\ pc = "saved"
    /\ applied[1].kind = X
    /\ log[1].obj.attrs["f"] = 1 /\ log[1].obj.attrs["g"] = 0
    /\ inst.attrs["f"] = 2 /\ inst.attrs["g"] = 1
    /\ CallsOf(1)[1].conv = 1 /\ CallsOf(2)[1].conv = 2

UnboundCleaners == {"static_inc", "class_inc", "fn_inc", "static_inc_ctx",
                    "class_inc_ctx", "fn_inc_ctx"}

\* C12: for a registered cleaner that is a static method, a class method or
\* a function outside the entity taking the value (and the context), the
\* pre-save handler does not raise and leaves the field equal to the
\* cleaner's result for the field's prior value (the cleaners add one to an
\* int; for None they raise TypeError and so does the handler); a class
\* method is passed the class, never the instance, as its first argument.
C12_StaticClassAndFunctionCleaners ==
    \A h \in 1..Len(receivers) :
        (InSave /\ (idx > h \/ Raised(h)) /\ Matches(h)
         /\ receivers[h].cleaner_function \in UnboundCleaners
         /\ receivers[h].field_name \in FieldsOf(inst)) =>
        /\ Raised(h) <=> ValueAfter(FirstOf(h) - 1, receivers[h].field_name) = None
        /\ Raised(h) =>
              /\ error = Err("TypeError", "unsupported operand", 0)
              /\ CallsOf(h)[Len(CallsOf(h))].res = Raise(error, "body")
        /\ idx > h =>
              /\ Cardinality(WritesOf(h)) = 1
              /\ \A i \in WritesOf(h) :
                    /\ log[i].field = receivers[h].field_name
                    /\ log[i].val = ValueAfter(FirstOf(h) - 1, receivers[h].field_name) + 1
                    /\ ValueAfter(i, receivers[h].field_name) = log[i].val
              /\ \A k \in DOMAIN CallsOf(h) :
                    LET c == CallsOf(h)[k]
                    IN  /\ c.raw = receivers[h].cleaner_function
                        /\ c.raw \in {"class_inc", "class_inc_ctx"} => c.recv[1] = ClsArg
                        /\ c.res.ok =>
                              /\ c.recv[1] # InstArg
                              /\ c.res.ret = ValueAfter(FirstOf(h) - 1,
                                                        receivers[h].field_name) + 1

\* A class method registered with cleans_field_with_context ran: it was
\* passed the class, the value and the context, and the field holds its result.
C12_Witness ==
    /\ pc = "saved" /\ Len(receivers) = 1
    /\ receivers[1] = ReceiverOf(Decl(X, "M", "f", "class_inc_ctx"))
    /\ Len(CallsOf(1)) = 1
    /\ CallsOf(1)[1].recv[1] = ClsArg /\ Len(CallsOf(1)[1].recv) = 3
    /\ log[1].obj.attrs["f"] # None
    /\ inst.attrs["f"] = log[1].obj.attrs["f"] + 1

\* The first entry of the log named e.
IndexOf(e) == CHOOSE i \in DOMAIN log : log[i].e = e /\ \A j \in DOMAIN log : log[j].e = e => i <= j

\* C13: save calls scrub_fields once, with no arguments; scrub_fields calls
\* clean_single_fields and clean_multiple_fields once each, with no
\* arguments; Model.save is then called once.
C13_SaveDelegatesToScrubFields ==
    (InSave /\ error = NoErr) =>
    /\ Count("scrub_fields") = 1
    /\ Count("clean_single_fields") = 1
    /\ Count("clean_multiple_fields") = 1
    /\ Count("Model.save") = 1
    /\ \A e \in {"scrub_fields", "clean_single_fields", "clean_multiple_fields"} :
          log[IndexOf(e)].args = <<>> /\ IndexOf(e) < IndexOf("Model.save")
    /\ IndexOf("scrub_fields") < IndexOf("clean_single_fields")
    /\ IndexOf("scrub_fields") < IndexOf("clean_multiple_fields")

\* The calls of _get_field_cleaner the save made, in order.
Lookups == SelectSeq(log, LAMBDA e : e.e = "_get_field_cleaner")

\* C14: clean_single_fields asks _get_field_cleaner for every field name of
\* the instance, in order; a field without a cleaner is neither cleaned nor
\* written and keeps its value; a field with a cleaner has the cleaner
\* called with no arguments and is set to what it returned.
C14_CleanSingleFieldsVisitsEveryField ==
    InSave =>
    /\ Len(Lookups) <= Len(get_model_field_names(inst))
    /\ \A k \in DOMAIN Lookups : Lookups[k].field = get_model_field_names(inst)[k]
    /\ Count("Model.save") = 1 => Len(Lookups) = Len(get_model_field_names(inst))
    /\ \A i \in DOMAIN log :
          (log[i].e = "_get_field_cleaner" /\ log[i].res.ok) =>
          IF Truthy(log[i].raw)
          THEN /\ i < Len(log) /\ IsCall(i + 1)
               /\ log[i + 1].h = 0
               /\ log[i + 1].cleaner = "clean_" \o log[i].field
               /\ log[i + 1].raw = log[i].raw
               /\ log[i + 1].args = <<>> /\ log[i + 1].kw = {}
               /\ log[i + 1].res.ok =>
                     /\ i + 1 < Len(log)
                     /\ log[i + 2] = WriteEntry(0, log[i].field, log[i + 1].res.ret)
                     /\ Count("Model.save") = 1 =>
                           ValueAfter(SaveCall, log[i].field) = log[i + 1].res.ret
          ELSE /\ ~\E j \in DOMAIN log :
                      /\ log[j].h = 0
                      /\ \/ log[j].e = "write" /\ log[j].field = log[i].field
                         \/ IsCall(j) /\ log[j].cleaner = "clean_" \o log[i].field
               /\ Count("Model.save") = 1 =>
                     ValueAfter(SaveCall, log[i].field) = log[1].obj.attrs[log[i].field]

\* N.clean_f was called with no arguments and f was set to what it returned
\* before Model.save was called.
C14_Witness ==
    /\ pc = "saved" /\ inst.model = "N" /\ Len(receivers) = 0
    /\ Len(Lookups) = 1 /\ Lookups[1].raw = "inc"
    /\ \E i \in DOMAIN log : IsCall(i) /\ log[i].cleaner = "clean_f" /\ log[i].args = <<>>
    /\ inst.attrs["f"] = IncOrOne(ValArg(log[1].obj.attrs["f"])).ret
    /\ inst.attrs["f"] # log[1].obj.attrs["f"]

\* C15: on save each field's cleaner method is called with the field's
\* current value as its argument, and what it returns is stored in the field.
C15_CleanerReceivesCurrentValue ==
    \A i \in DOMAIN log :
        (InSave /\ IsCall(i) /\ log[i].h = 0) =>
        /\ log[i].args = <<ValArg(ValueAfter(i - 1, log[i - 1].field))>>
        /\ log[i].res.ok => log[i + 1] = WriteEntry(0, log[i - 1].field, log[i].res.ret)

\* C16: CleanFieldsModel._get_field_cleaner returns the attribute
\* clean_<field> when it exists and is callable, and None when it is missing
\* or not callable; BaseCleanFieldsModel._get_field_cleaner raises
\* NotImplementedError.
C16_GetFieldCleaner ==
    \A i \in DOMAIN log :
        (InSave /\ log[i].e = "_get_field_cleaner") =>
        IF inst.model = "B"
        THEN /\ log[i].res = Raise(Err("NotImplementedError", "", 0), "models")
             /\ pc = "raised" /\ error.kind = "NotImplementedError"
        ELSE /\ log[i].res.ok
             /\ LET a == NamedAttr(inst.model, log[i].field)
                IN  IF a \in {"inc", "raise"} THEN log[i].raw = a
                    ELSE log[i].raw = "None"

\* C17: get_model_field_value raises AttributeError exactly when the
\* instance has no attribute of the name (seen at the cleans_field handler,
\* which turns it into the configuration error) and returns the attribute's
\* value otherwise, None included: a cleaner registered on a field holding
\* None is called with None, and the handler raises nothing but what the
\* cleaner itself raises for None (inc_or_one raises nothing).
C17_GetModelFieldValue ==
    \A h \in 1..Len(receivers) :
        (InSave /\ Matches(h) /\ (idx > h \/ Raised(h))) =>
        LET name == receivers[h].field_name
        IN  /\ (receivers[h].kind = P /\ name \notin DOMAIN inst.attrs) =>
                  /\ Raised(h) /\ error.kind = "CleanFieldsConfigurationError"
                  /\ CallsOf(h) = <<>>
            /\ (receivers[h].kind = P /\ name \in DOMAIN inst.attrs) =>
                  /\ Raised(h) =>
                        error.kind \notin {"CleanFieldsConfigurationError", "AttributeError"}
                  /\ CallsOf(h) # <<>>
                  /\ \A k \in DOMAIN CallsOf(h) :
                        CallsOf(h)[k].given = <<ValArg(ValueAfter(FirstOf(h) - 1, name))>>
            /\ (name \in FieldsOf(inst) /\ CallsOf(h) # <<>>
                /\ ValueAfter(FirstOf(h) - 1, name) = None) =>
                  LET last == CallsOf(h)[Len(CallsOf(h))]
                  IN  /\ CallsOf(h)[1].given[1] = ValArg(None)
                      /\ Raised(h) <=> ~last.res.ok
                      /\ Raised(h) => error = last.res.err
                      /\ ~Raised(h) => \E i \in WritesOf(h) : log[i].val = last.res.ret
                      /\ receivers[h].cleaner_function = "inc_or_one" => ~Raised(h)

\* A cleans_field cleaner on f ran on an instance whose f held None: it was
\* given None and the save finished.
C17_Witness ==
    /\ pc = "saved" /\ Len(receivers) = 1
    /\ receivers[1] = ReceiverOf(Decl(P, "M", "f", "inc_or_one"))
    /\ log[1].obj.attrs["f"] = None
    /\ CallsOf(1)[1].given = <<ValArg(None)>>
    /\ inst.attrs["f"] = 1

\* C18: a CleanFieldsConfigurationError raised by a pre-save handler is a
\* CleanFieldsError, and its message carries the cleaner name, the field
\* name and the model label of the registration whose handler raised it, a
\* registration whose field the entity does not have.
C18_ConfigurationErrorIdentifiesRegistration ==
    (pc = "raised" /\ error.kind = "CleanFieldsConfigurationError") =>
    /\ idx \in 1..Len(receivers)
    /\ IsSubclass(error.kind, "CleanFieldsError")
    /\ receivers[idx] = ReceiverOf(applied[idx])
    /\ applied[idx].field_ref[3] \notin FieldsOf(inst)
    /\ Message(error)[2] = Name(applied[idx].cleaner)
    /\ Message(error)[4] = applied[idx].field_ref[3]
    /\ Message(error)[6] = applied[idx].field_ref[1] \o "." \o applied[idx].field_ref[2]
    /\ Len(Message(error)) = 7

\* The second of two registrations names a missing field: the first one's
\* cleaner ran, the error names the second one's cleaner and field.
C18_Witness ==
    /\ pc = "raised" /\ idx = 2
    /\ applied = <<Decl(P, "M", "f", "add_two"), Decl(X, "M", "nf", "add_one_ctx")>>
    /\ error.kind = "CleanFieldsConfigurationError"
    /\ Message(error)[2] = "add_one_ctx" /\ Message(error)[4] = "nf"
    /\ Message(error)[6] = "app.M"
    /\ CallsOf(1) # <<>> /\ CallsOf(2) = <<>>

\* C19: when the instance has no attribute named like the cleaner,
\* call_cleaner calls the cleaner without the instance exactly when the call
\* with the instance raised a TypeError whose message matches 'takes
\* [exactly] <digit> [positional] argument(s)'; any other exception of the
\* call with the instance leaves call_cleaner as it is and no call follows.
C19_FallbackOnlyOnArityTypeError ==
    \A h \in 1..Len(receivers) :
        (InSave /\ CallsOf(h) # <<>> /\ CallsOf(h)[1].conv = 2) =>
        LET cs == CallsOf(h)
            arity == /\ ~cs[1].res.ok
                     /\ cs[1].res.err.kind = "TypeError"
                     /\ cs[1].res.err.msg = "takes" /\ cs[1].res.err.n \in 0..9
        IN  /\ GetAttr(log[1].obj, Name(receivers[h].cleaner_function)).t = "absent"
            /\ (Len(cs) = 2) <=> arity
            /\ Len(cs) = 2 =>
                  /\ cs[2].conv = 3 /\ cs[2].raw = cs[1].raw
                  /\ cs[2].recv = cs[1].given /\ cs[1].recv = <<InstArg>> \o cs[1].given
            /\ (~cs[1].res.ok /\ ~arity) =>
                  /\ Len(cs) = 1
                  /\ Raised(h) /\ error = cs[1].res.err

\* A wrapped method raised TypeError('some_field is the wrong type') when
\* called with the instance: no second call, the error left the handler.
C19_Witness ==
    /\ pc = "raised" /\ idx = 1
    /\ receivers[1].cleaner_function = "stacked_type_raise"
    /\ Len(CallsOf(1)) = 1 /\ CallsOf(1)[1].conv = 2
    /\ error = Err("TypeError", "some_field is the wrong type", 0)
    /\ CallsOf(1)[1].res = Raise(error, "body")

\* What getattr(instance, name, None) gave when handler h started: a method
\* of the class, or the attribute's value then.
AttrAtStart(h, name) ==
    IF name \in DOMAIN log[1].obj.attrs
    THEN [t |-> "value", v |-> ValueAfter(FirstOf(h) - 1, name), name |-> name]
    ELSE GetAttr(log[1].obj, name)

\* C20: when the instance has a non-None attribute named like the registered
\* cleaner, call_cleaner calls that attribute with the args, once, and makes
\* no call of the registered callable, also when the attribute is another
\* callable (or no callable at all) than the one registered.
C20_SameNamedAttributeIsCalled ==
    \A h \in 1..Len(receivers) :
        (InSave /\ CallsOf(h) # <<>>) =>
        LET cs == CallsOf(h)
            a == AttrAtStart(h, Name(receivers[h].cleaner_function))
            nonNone == a.t = "callable" \/ (a.t = "value" /\ a.v # None)
        IN  IF nonNone
            THEN /\ Len(cs) = 1
                 /\ cs[1].conv = 1 /\ cs[1].args = cs[1].given /\ cs[1].kw = {}
                 /\ a.t = "callable" =>
                       /\ cs[1].raw = a.name
                       /\ cs[1].res = Invoke(a.name, cs[1].recv, {})
                 /\ a.t = "value" =>
                       /\ cs[1].res = Raise(Err("TypeError", "not callable", 0), "signature")
                       /\ Raised(h) /\ error = cs[1].res.err
            ELSE cs[1].conv = 2 /\ cs[1].raw = RawOf(receivers[h].cleaner_function)

\* The function other_add_one (which adds two) was registered on f of M, whose
\* method add_one adds one: the method was called and f holds its result.
C20_Witness ==
    /\ pc = "saved" /\ Len(receivers) = 1
    /\ receivers[1] = ReceiverOf(Decl(P, "M", "f", "other_add_one"))
    /\ Len(CallsOf(1)) = 1 /\ CallsOf(1)[1].raw = "add_one"
    /\ log[1].obj.attrs["f"] = 0
    /\ inst.attrs["f"] = 1 /\ inst.attrs["f"] # 2

\* C21: a handler writes its field only after its cleaner returned.  When
\* the k-th handler of a pre-save event raises, it has written nothing and
\* the instance is as handlers 1..k-1 left it: their writes stay.  The same
\* holds for the clean_<field> methods of clean_single_fields.
C21_FailingHandlerWritesNothing ==
    InSave =>
    /\ \A i \in DOMAIN log :
          log[i].e = "write" =>
          /\ i > 1 /\ IsCall(i - 1)
          /\ log[i - 1].h = log[i].h
          /\ log[i - 1].res.ok /\ log[i].val = log[i - 1].res.ret
    /\ pc = "raised" =>
          /\ ~\E i \in DOMAIN log :
                /\ log[i].e = "write"
                /\ IF idx >= 1 THEN log[i].h = idx
                   ELSE log[i].field = log[Len(log)].field
                        \/ "clean_" \o log[i].field = log[Len(log)].cleaner
          /\ DOMAIN inst.attrs = DOMAIN log[1].obj.attrs
          /\ \A a \in DOMAIN inst.attrs :
                /\ inst.attrs[a] = ValueAfter(Len(log), a)
                /\ \A h \in 1..Len(receivers) :
                      (idx = h /\ CallsOf(h) # <<>>)
                      => inst.attrs[a] = ValueAfter(FirstOf(h) - 1, a)

\* The first handler changed f, the second handler's cleaner raised: f holds
\* what the first wrote and g, the second's field, is what it was.
C21_Witness ==
    /\ pc = "raised" /\ idx = 2
    /\ applied = <<Decl(P, "M", "f", "add_one"), Decl(P, "M", "g", "m_raise")>>
    /\ error.kind = "ValueError"
    /\ log[1].obj.attrs["f"] # None
    /\ inst.attrs["f"] = log[1].obj.attrs["f"] + 1
    /\ inst.attrs["g"] = log[1].obj.attrs["g"]

\* C22: a pre-save handler registered for field f writes no attribute of
\* the instance but f.  Across the run of a handler every other attribute
\* keeps its value and no attribute appears or disappears; a receiver
\* connected for another entity type leaves the instance, the log and the
\* error as they were; the items a cleaner assigned in the context it was
\* given reach no field of the instance.
C22_HandlerWritesOnlyItsField ==
    /\ [](InSave =>
            \A i \in DOMAIN log :
                (log[i].e = "write" /\ log[i].h >= 1)
                => log[i].field = receivers[log[i].h].field_name)
    /\ [][(pc = "pre_save" /\ idx \in 1..Len(receivers)) =>
            IF Matches(idx)
            THEN /\ inst'.model = inst.model
                 /\ DOMAIN inst'.attrs = DOMAIN inst.attrs
                 /\ \A a \in DOMAIN inst.attrs :
                       a # receivers[idx].field_name
                       => inst'.attrs[a] = inst.attrs[a]
                 /\ \A i \in (Len(log) + 1)..Len(log') :
                       log'[i].e = "call" =>
                       \A p \in log'[i].res.setitems :
                           /\ p[1] # receivers[idx].field_name
                              => inst'.attrs[p[1]] = inst.attrs[p[1]]
                           /\ (p[1] = receivers[idx].field_name /\ log'[i].res.ok)
                              => inst'.attrs[p[1]] = log'[i].res.ret
            ELSE inst' = inst /\ log' = log /\ error' = error /\ pc' = pc]_vars

\* The handler for f ran a cleaner that assigned g plus one and f = None in
\* its context and returned f plus one: f holds the returned value, g the
\* value it had before the save.
C22_Witness ==
    /\ InSave /\ pc = "pre_save" /\ idx = 2
    /\ applied = <<Decl(X, "M", "f", "ctx_set")>>
    /\ \E i \in DOMAIN log :
          /\ log[i].e = "call" /\ log[i].raw = "ctx_set" /\ log[i].res.ok
          /\ <<"f", None>> \in log[i].res.setitems
          /\ <<"g", log[1].obj.attrs["g"] + 1>> \in log[i].res.setitems
          /\ inst.attrs["f"] = log[i].res.ret
    /\ log[1].obj.attrs["f"] # None
    /\ inst.attrs["f"] = log[1].obj.attrs["f"] + 1
    /\ inst.attrs["g"] = log[1].obj.attrs["g"]
    /\ inst.attrs["h"] = log[1].obj.attrs["h"]

\* A receiver connected for entity M is passed by while an instance of
\* entity N is saved.
C22_OtherEntityWitness ==
    /\ InSave /\ pc = "pre_save" /\ inst.model = "N" /\ idx = 2
    /\ applied = <<Decl(X, "M", "f", "ctx_set")>>
    /\ \A i \in DOMAIN log : log[i].h = 0

====
